---- MODULE Spec2Model ----
(***************************************************************************)
(* Model of vmm_config/memory.rs: MemoryBuilder, the ordered registry of   *)
(* Arc<Mutex<Memory>> handles, with its operations insert, add_device,     *)
(* iter and iter_mut.  add_device is modelled at the granularity of its    *)
(* lock operations, because the device mutexes are shared with holders     *)
(* outside the registry.                                                   *)
(***************************************************************************)
EXTENDS Integers, Sequences, FiniteSets, TLC

\* ---------------------------------------------------------------- bounds
\* Number of Arc<Mutex<Memory>> allocations that can be live at once.
MaxHandles == 3
\* Calls that may append are started only while the Vec is shorter than this.
MaxDevices == 3

\* ------------------------------------------------------------- constants
\* page_size() of the tests.
PAGE == 4096
\* Largest value of MemoryDeviceConfig::node_id (u16).
U16Max == 65535

\* ---------------------------------------------------------------- inputs
\* Threads that call the registry; another holder of device handles; the
\* holder of an unlocked mutex; the pool of handles and the null handle.
Callers == {"c1", "c2"}
Ext == "ext"
Free == "free"
Handles == 1..MaxHandles
NoHandle == 0

Ids == {"memory-dev", "broken-config"}
\* <<block_size, region_size>> of the tests' default_config and broken_config.
Shapes == {<<PAGE, 8 * PAGE>>, <<PAGE + 1, PAGE + 2>>}
NodeIds == {0, U16Max}
RequestedSizes == {0, 9 * PAGE}

\* struct MemoryDeviceConfig
MemoryDeviceConfig ==
    {[id |-> id, block_size |-> sh[1], node_id |-> nd, region_size |-> sh[2],
      requested_size |-> rq] :
        id \in Ids, sh \in Shapes, nd \in NodeIds, rq \in RequestedSizes}

\* Configs over every pairing of the sizes and over the edges of u16.
WideNodeIds == {0, 1, 2, 255, 256, U16Max - 1, U16Max}
WideConfigs ==
    {[id |-> id, block_size |-> bs, node_id |-> nd, region_size |-> rs,
      requested_size |-> rq] :
        id \in Ids, bs \in {PAGE, PAGE + 1}, nd \in WideNodeIds,
        rs \in {PAGE + 2, 8 * PAGE}, rq \in RequestedSizes}

\* The tests' default_config, under either id.
DefaultConfigs ==
    {cfg \in MemoryDeviceConfig :
        /\ cfg.block_size = PAGE
        /\ cfg.region_size = 8 * PAGE
        /\ cfg.node_id = 0
        /\ cfg.requested_size = 0}

NoCfg == [id |-> "", block_size |-> 0, node_id |-> 0,
          region_size |-> 0, requested_size |-> 0]

\* Option<u16>
None == [some |-> FALSE, val |-> 0]
Some(n) == [some |-> TRUE, val |-> n]

\* An unallocated slot of the handle pool.
NoDev == [id |-> "", block_size |-> 0, numa |-> None, region_size |-> 0]
NoArgs == NoDev

\* ------------------------------------------------------- pure operations

\* A faulty variant of NumaArg: node 1 is taken for "unspecified" too.
NumaArgOffByOne(node_id) == IF node_id > 1 THEN Some(node_id) ELSE None

\* build, lines 71-75: the node argument handed to Memory::new.
NumaArg(node_id) == IF node_id # 0 THEN Some(node_id) ELSE None

\* build, lines 69-78: the four arguments of Memory::new, in the record
\* shape of the device they describe.  requested_size is not among them.
BuildArgs(cfg) ==
    [id |-> cfg.id, block_size |-> cfg.block_size,
     numa |-> NumaArg(cfg.node_id), region_size |-> cfg.region_size]

\* Memory::new (crate::devices::virtio::memory::device, not in this file):
\* rejects a block size that does not divide the region size.
MemoryNewOk(args) ==
    /\ args.block_size # 0
    /\ args.region_size % args.block_size = 0

\* Memory::new on success: the device holds what it was given.
MemoryNew(args) == args

\* Faulty variants of MapErr: the constructor's error under another kind.
MapErrWrongKind == "DeviceWithThisIdExists"
MapErrNotFound == "DeviceNotFound"

\* build, line 79: map_err(MemoryConfigError::CreateFailure).
MapErr == "CreateFailure"

\* A faulty variant of ReturnsEarly: insert goes on to add_device whatever
\* build returned.
ReturnsEarlyNever(ok) == FALSE

\* insert, line 84: the ? on build's result returns the Err at once.
ReturnsEarly(ok) == ~ok

\* A faulty variant of HoldDevice: the guard of the registered device is
\* dropped as soon as it is taken.
HoldDeviceDropped(hold, d, c) == hold

\* add_device, line 91: the MutexGuard of device.lock() is a temporary of
\* the if condition, so caller c holds d's lock until the condition ends.
HoldDevice(hold, d, c) == [hold EXCEPT ![d] = c]

\* add_device, lines 91-95: both temporaries are dropped at the end of the
\* if condition, before the body or the next iteration runs.
ReleaseGuards(hold, d, m) == [hold EXCEPT ![m] = Free, ![d] = Free]

\* Faulty variants of SameId: no collision is ever seen; only a device
\* equal in every field collides.
SameIdNever(device, memory) == FALSE
SameIdWholeDevice(device, memory) == device = memory

\* add_device, lines 91-92: the comparison of the two ids.
SameId(device, memory) == device.id = memory.id

\* A faulty variant of Push: the handle goes to the front.
PushFront(v, h) == <<h>> \o v

\* add_device, line 97: Vec::push.
Push(v, h) == Append(v, h)

\* A faulty variant of ExpectPanics: the poison is ignored and the guard
\* used.
ExpectIgnoresPoison(isPoisoned) == FALSE

\* add_device, lines 91-92: expect("Poisoned lock") on the LockResult.
ExpectPanics(isPoisoned) == isPoisoned

\* A faulty variant of SliceIter: the traversal skips the first element.
SliceIterFromSecond(v) == [i |-> 1, n |-> Len(v)]

\* iter / iter_mut, lines 101-107: a slice iterator over the whole Vec,
\* i elements yielded so far out of n.
SliceIter(v) == [i |-> 0, n |-> Len(v)]

Range(s) == {s[k] : k \in 1..Len(s)}

\* -------------------------------------------------------------- variables
VARIABLES
    memory_devices,  \* MemoryBuilder::memory_devices, a sequence of handles
    spare,           \* slots of the Vec's buffer past its length
    devs,            \* the Memory behind each handle (NoDev: not allocated)
    holder,          \* who holds each handle's mutex
    poisoned,        \* the poison flag of each handle's mutex
    pc,              \* position of each caller of the registry
    frame,           \* the locals of each caller's call in progress
    prevFailed,      \* the last completed call returned Err(CreateFailure)
    overlapped       \* some call was entered while another was in progress

vars == <<memory_devices, spare, devs, holder, poisoned, pc, frame,
          prevFailed, overlapped>>

\* Locals of a call: the operation and its argument, the new handle
\* (memory), whether build made it, the position and end of the slice
\* iterator, the length Vec::push read, the arguments build gave
\* Memory::new, the result, why the call panicked or hung, the registry as
\* it was on entry, and what a traversal has yielded.
IdleFrame ==
    [op |-> "none", cfg |-> NoCfg, memory |-> NoHandle, fresh |-> FALSE,
     i |-> 0, n |-> 0, len |-> 0, args |-> NoArgs, result |-> "none",
     fault |-> "none", pre |-> <<>>, out |-> <<>>]

Allocated == {h \in Handles : devs[h] # NoDev}
FreeSlots == Handles \ Allocated

\* A handle build has made that is not yet in the registry is reachable
\* from its own call only.
Private(h) ==
    \E c \in Callers :
        /\ pc[c] \in {"scan", "lock_memory", "compare", "push"}
        /\ frame[c].fresh
        /\ frame[c].memory = h

\* Callers inside add_device, each about to append at most one handle.
InAddDevice ==
    {c \in Callers : pc[c] \in {"scan", "lock_memory", "compare", "push"}}

\* A caller starts a call when it is in none.
CanEnter(c) == pc[c] = "idle"

\* Callers other than c whose call on the registry has not ended.
OthersInCall(c) ==
    {o \in Callers \ {c} :
        pc[o] \in {"scan", "lock_memory", "compare", "push", "iterating",
                   "deadlocked"}}

Enter(c) == overlapped' = (overlapped \/ OthersInCall(c) # {})

\* The Vec's buffer: its elements and the slots past its length.  Only an
\* unserialized push, which writes at a length read earlier, leaves
\* handles past the length.
Buffer == memory_devices \o spare

\* Vec::push, line 97, writing slot k of the buffer, k at most one past it.
WriteSlot(buf, k, h) ==
    IF k = Len(buf) + 1 THEN Push(buf, h) ELSE [buf EXCEPT ![k] = h]

HasRoom == Len(Buffer) + Cardinality(InAddDevice) < MaxDevices

\* MemoryBuilder::new / Default::default, lines 55-66.
Init ==
    /\ memory_devices = <<>>
    /\ spare = <<>>
    /\ devs = [h \in Handles |-> NoDev]
    /\ holder = [h \in Handles |-> Free]
    /\ poisoned = [h \in Handles |-> FALSE]
    /\ pc = [c \in Callers |-> "idle"]
    /\ frame = [c \in Callers |-> IdleFrame]
    /\ prevFailed = FALSE
    /\ overlapped = FALSE

\* ---------------------------------------------------------------- actions

\* The smallest free slot of the handle pool: where Arc::new allocates.
NewHandle == CHOOSE x \in FreeSlots : \A y \in FreeSlots : x <= y

\* A Memory wrapped in Arc<Mutex<..>> outside the registry, to be handed to
\* add_device later.
NewDevice(cfg) ==
    /\ FreeSlots # {}
    /\ MemoryNewOk(BuildArgs(cfg))
    /\ devs' = [devs EXCEPT ![NewHandle] = MemoryNew(BuildArgs(cfg))]
    /\ UNCHANGED <<memory_devices, spare, holder, poisoned, pc, frame, prevFailed,
                   overlapped>>

\* insert, lines 83-84, with build, lines 68-81: construct the device; on
\* Err return it wrapped, on Ok enter add_device with the new handle.
CallInsert(c, cfg) ==
    /\ CanEnter(c)
    /\ HasRoom
    /\ FreeSlots # {}
    /\ Enter(c)
    /\ LET args == BuildArgs(cfg)
           f == [IdleFrame EXCEPT !.op = "insert", !.cfg = cfg, !.args = args,
                                  !.pre = memory_devices]
       IN IF ~ReturnsEarly(MemoryNewOk(args))
          THEN /\ devs' = [devs EXCEPT ![NewHandle] = MemoryNew(args)]
               /\ pc' = [pc EXCEPT ![c] = "scan"]
               /\ frame' = [frame EXCEPT ![c] =
                     [f EXCEPT !.memory = NewHandle, !.fresh = TRUE, !.i = 1,
                               !.n = Len(memory_devices)]]
          ELSE /\ devs' = devs
               /\ pc' = [pc EXCEPT ![c] = "returned"]
               /\ frame' = [frame EXCEPT ![c] = [f EXCEPT !.result = MapErr]]
    /\ UNCHANGED <<memory_devices, spare, holder, poisoned, prevFailed>>

\* add_device, lines 89-90: entered directly with an existing handle; the
\* for loop takes a slice iterator over the Vec as it is now.
CallAddDevice(c, h) ==
    /\ CanEnter(c)
    /\ HasRoom
    /\ h \in Allocated
    /\ ~Private(h)
    /\ Enter(c)
    /\ pc' = [pc EXCEPT ![c] = "scan"]
    /\ frame' = [frame EXCEPT ![c] =
          [IdleFrame EXCEPT !.op = "add_device", !.memory = h, !.i = 1,
                            !.n = Len(memory_devices),
                            !.pre = memory_devices]]
    /\ UNCHANGED <<memory_devices, spare, devs, holder, poisoned, prevFailed>>

\* The handle build made is dropped when the call ends without pushing it.
DropFresh(c, d) ==
    IF frame[c].fresh THEN [d EXCEPT ![frame[c].memory] = NoDev] ELSE d

ForgetFresh(c, f) ==
    IF frame[c].fresh THEN [f EXCEPT !.memory = NoHandle] ELSE f

\* add_device, line 91: device.lock() succeeds on the next registered device.
LockDevice(c) ==
    /\ pc[c] = "scan"
    /\ frame[c].i <= frame[c].n
    /\ LET d == Buffer[frame[c].i]
       IN /\ holder[d] = Free
          /\ ~ExpectPanics(poisoned[d])
          /\ holder' = HoldDevice(holder, d, c)
    /\ pc' = [pc EXCEPT ![c] = "lock_memory"]
    /\ UNCHANGED <<memory_devices, spare, devs, poisoned, frame, prevFailed,
                   overlapped>>

\* add_device, line 91: device.lock() returns a PoisonError and expect
\* panics; the call unwinds.
LockDevicePoisoned(c) ==
    /\ pc[c] = "scan"
    /\ frame[c].i <= frame[c].n
    /\ LET d == Buffer[frame[c].i]
       IN /\ holder[d] = Free
          /\ ExpectPanics(poisoned[d])
    /\ pc' = [pc EXCEPT ![c] = "panicked"]
    /\ devs' = DropFresh(c, devs)
    /\ frame' = [frame EXCEPT ![c] =
          [ForgetFresh(c, frame[c]) EXCEPT !.fault = "poisoned"]]
    /\ UNCHANGED <<memory_devices, spare, holder, poisoned, prevFailed,
                   overlapped>>

\* add_device, line 92: memory.lock() succeeds while the guard of the
\* registered device is still alive.
LockMemory(c) ==
    /\ pc[c] = "lock_memory"
    /\ LET m == frame[c].memory
       IN /\ holder[m] = Free
          /\ ~ExpectPanics(poisoned[m])
          /\ holder' = [holder EXCEPT ![m] = c]
    /\ pc' = [pc EXCEPT ![c] = "compare"]
    /\ UNCHANGED <<memory_devices, spare, devs, poisoned, frame, prevFailed,
                   overlapped>>

\* add_device, line 92: memory.lock() returns a PoisonError and expect
\* panics; unwinding drops the guard of the registered device, which
\* poisons that mutex too.
LockMemoryPoisoned(c) ==
    /\ pc[c] = "lock_memory"
    /\ LET m == frame[c].memory
           d == Buffer[frame[c].i]
       IN /\ holder[m] = Free
          /\ ExpectPanics(poisoned[m])
          /\ holder' = [holder EXCEPT ![d] = Free]
          /\ poisoned' = [poisoned EXCEPT ![d] = TRUE]
    /\ pc' = [pc EXCEPT ![c] = "panicked"]
    /\ devs' = DropFresh(c, devs)
    /\ frame' = [frame EXCEPT ![c] =
          [ForgetFresh(c, frame[c]) EXCEPT !.fault = "poisoned"]]
    /\ UNCHANGED <<memory_devices, spare, prevFailed,
                   overlapped>>

\* add_device, line 92: memory is the very handle whose guard line 91
\* holds.  std::sync::Mutex::lock on a mutex the thread already holds
\* never returns: it deadlocks or panics.
LockMemorySelf(c) ==
    /\ pc[c] = "lock_memory"
    /\ holder[frame[c].memory] = c
    /\ \/ /\ pc' = [pc EXCEPT ![c] = "deadlocked"]
          /\ UNCHANGED <<holder, poisoned>>
       \/ /\ pc' = [pc EXCEPT ![c] = "panicked"]
          /\ holder' = [holder EXCEPT ![frame[c].memory] = Free]
          /\ poisoned' = [poisoned EXCEPT ![frame[c].memory] = TRUE]
    /\ frame' = [frame EXCEPT ![c].fault = "relock"]
    /\ UNCHANGED <<memory_devices, spare, devs, prevFailed,
                   overlapped>>

\* add_device, lines 91-95: compare the ids, drop both guards, and either
\* return the error or go on to the next registered device.
Compare(c) ==
    /\ pc[c] = "compare"
    /\ LET m == frame[c].memory
           d == Buffer[frame[c].i]
       IN /\ holder' = ReleaseGuards(holder, d, m)
          /\ IF SameId(devs[d], devs[m])
             THEN /\ pc' = [pc EXCEPT ![c] = "returned"]
                  /\ devs' = DropFresh(c, devs)
                  /\ frame' = [frame EXCEPT ![c] =
                        [ForgetFresh(c, frame[c]) EXCEPT
                            !.result = "DeviceWithThisIdExists"]]
             ELSE /\ pc' = [pc EXCEPT ![c] = "scan"]
                  /\ devs' = devs
                  /\ frame' = [frame EXCEPT ![c].i = frame[c].i + 1]
    /\ UNCHANGED <<memory_devices, spare, poisoned, prevFailed,
                   overlapped>>

\* add_device, line 97: the scan found no collision; Vec::push reads the
\* length of the Vec.
PushLen(c) ==
    /\ pc[c] = "scan"
    /\ frame[c].i > frame[c].n
    /\ pc' = [pc EXCEPT ![c] = "push"]
    /\ frame' = [frame EXCEPT ![c].len = Len(memory_devices)]
    /\ UNCHANGED <<memory_devices, spare, devs, holder, poisoned, prevFailed,
                   overlapped>>

\* add_device, lines 97-98 (and insert, line 86): Vec::push writes the
\* handle at the length it read and sets the length one past it; Ok.
PushWrite(c) ==
    /\ pc[c] = "push"
    /\ LET buf == WriteSlot(Buffer, frame[c].len + 1, frame[c].memory)
       IN /\ memory_devices' = SubSeq(buf, 1, frame[c].len + 1)
          /\ spare' = SubSeq(buf, frame[c].len + 2, Len(buf))
    /\ pc' = [pc EXCEPT ![c] = "returned"]
    /\ frame' = [frame EXCEPT ![c].result = "Ok"]
    /\ UNCHANGED <<devs, holder, poisoned, prevFailed, overlapped>>

\* The caller has looked at the result; its frame is gone.
Finish(c) ==
    /\ pc[c] = "returned"
    /\ pc' = [pc EXCEPT ![c] = "idle"]
    /\ prevFailed' = (frame[c].result = "CreateFailure")
    /\ frame' = [frame EXCEPT ![c] = IdleFrame]
    /\ UNCHANGED <<memory_devices, spare, devs, holder, poisoned,
                   overlapped>>

\* iter / iter_mut, lines 101-107: a new slice iterator over the Vec.
CallIter(c, op) ==
    /\ CanEnter(c)
    /\ Enter(c)
    /\ pc' = [pc EXCEPT ![c] = "iterating"]
    /\ frame' = [frame EXCEPT ![c] =
          [IdleFrame EXCEPT !.op = op, !.i = SliceIter(memory_devices).i,
                            !.n = SliceIter(memory_devices).n,
                            !.pre = memory_devices]]
    /\ UNCHANGED <<memory_devices, spare, devs, holder, poisoned, prevFailed>>

\* Iterator::next on the slice iterator: yields the next handle.
IterNext(c) ==
    /\ pc[c] = "iterating"
    /\ frame[c].i < frame[c].n
    /\ frame' = [frame EXCEPT ![c].i = frame[c].i + 1,
                              ![c].out = Append(frame[c].out,
                                                Buffer[frame[c].i + 1])]
    /\ UNCHANGED <<memory_devices, spare, devs, holder, poisoned, pc, prevFailed,
                   overlapped>>

\* The iterator is dropped, exhausted or not; the borrow of the registry ends.
IterDrop(c) ==
    /\ pc[c] = "iterating"
    /\ pc' = [pc EXCEPT ![c] = "idle"]
    /\ frame' = [frame EXCEPT ![c] = IdleFrame]
    /\ UNCHANGED <<memory_devices, spare, devs, holder, poisoned, prevFailed,
                   overlapped>>

\* Another holder of a handle (a clone of the Arc) locks the device; it
\* holds at most one device lock at a time.
ExtLock(h) ==
    /\ h \in Allocated
    /\ ~Private(h)
    /\ holder[h] = Free
    /\ ~poisoned[h]
    /\ \A x \in Handles : holder[x] # Ext
    /\ holder' = [holder EXCEPT ![h] = Ext]
    /\ UNCHANGED <<memory_devices, spare, devs, poisoned, pc, frame, prevFailed,
                   overlapped>>

\* The other holder drops its guard.
ExtUnlock(h) ==
    /\ holder[h] = Ext
    /\ holder' = [holder EXCEPT ![h] = Free]
    /\ UNCHANGED <<memory_devices, spare, devs, poisoned, pc, frame, prevFailed,
                   overlapped>>

\* The other holder panics while holding the guard: the mutex is poisoned.
ExtPanic(h) ==
    /\ holder[h] = Ext
    /\ holder' = [holder EXCEPT ![h] = Free]
    /\ poisoned' = [poisoned EXCEPT ![h] = TRUE]
    /\ UNCHANGED <<memory_devices, spare, devs, pc, frame, prevFailed,
                   overlapped>>

\* The control path that drives the registry under the single-writer
\* discipline (&mut self).
Main == "c1"

\* Holders of device handles outside the registry.
Env ==
    \/ \E cfg \in DefaultConfigs : NewDevice(cfg)
    \/ \E h \in Handles : ExtLock(h)
    \/ \E h \in Handles : ExtUnlock(h)
    \/ \E h \in Handles : ExtPanic(h)

Next ==
    \/ \E cfg \in MemoryDeviceConfig : CallInsert(Main, cfg)
    \/ \E h \in Handles : CallAddDevice(Main, h)
    \/ LockDevice(Main)
    \/ LockDevicePoisoned(Main)
    \/ LockMemory(Main)
    \/ LockMemoryPoisoned(Main)
    \/ LockMemorySelf(Main)
    \/ Compare(Main)
    \/ PushLen(Main)
    \/ PushWrite(Main)
    \/ Finish(Main)
    \/ \E op \in {"iter", "iter_mut"} : CallIter(Main, op)
    \/ IterNext(Main)
    \/ IterDrop(Main)
    \/ Env

\* Two callers use one registry with nothing serializing their calls.
NextConc ==
    \/ \E cfg \in DefaultConfigs : NewDevice(cfg)
    \/ \E c \in Callers, h \in Handles : CallAddDevice(c, h)
    \/ \E c \in Callers : LockDevice(c)
    \/ \E c \in Callers : LockMemory(c)
    \/ \E c \in Callers : LockMemorySelf(c)
    \/ \E c \in Callers : Compare(c)
    \/ \E c \in Callers : PushLen(c)
    \/ \E c \in Callers : PushWrite(c)
    \/ \E c \in Callers : Finish(c)

\* insert alone, over the wide configs, with no other holder of a handle.
NextBuild ==
    \/ \E cfg \in WideConfigs : CallInsert(Main, cfg)
    \/ LockDevice(Main)
    \/ LockMemory(Main)
    \/ Compare(Main)
    \/ PushLen(Main)
    \/ PushWrite(Main)
    \/ Finish(Main)

\* One control path at a time drives the registry.
Spec == Init /\ [][Next]_vars

\* One control path inserts configs, one call after the other.
SpecBuild == Init /\ [][NextBuild]_vars

\* Callers enter add_device without serializing their calls.
SpecConc == Init /\ [][NextConc]_vars

\* ----------------------------------------------------------------- claims

\* The frame of the control path that drives the registry.
Main_f == frame[Main]

\* That control path's call of op has returned.
Returned(op) == pc[Main] = "returned" /\ Main_f.op = op

\* A config whose block size and region size the constructor accepts.
Constructible(cfg) ==
    cfg.block_size # 0 /\ cfg.region_size % cfg.block_size = 0

\* The id of the device behind a handle; the ids behind a sequence.
IdOf(h) == devs[h].id
IdsIn(v) == {IdOf(v[k]) : k \in 1..Len(v)}

\* C1: under the single-writer discipline, in every reachable state the ids
\* of the devices held in memory_devices are pairwise distinct.
C1_UniqueIds ==
    \A j, k \in 1..Len(memory_devices) :
        j # k => IdOf(memory_devices[j]) # IdOf(memory_devices[k])

\* C1 witness: two devices are registered and a call with a colliding id
\* has just been turned away.
C1_Witness ==
    /\ Len(memory_devices) = 2
    /\ pc[Main] = "returned"
    /\ Main_f.result = "DeviceWithThisIdExists"

\* C2: insert of a constructible config into the empty registry returns Ok
\* and registers the device built from it; insert of a second constructible
\* config with the same id then returns Err(DeviceWithThisIdExists) and the
\* registry still holds exactly that one device, unchanged.
C2_InsertDuplicate ==
    /\ [](Returned("insert") /\ Constructible(Main_f.cfg) /\ Main_f.pre = <<>>
            => /\ Main_f.result = "Ok"
               /\ Len(memory_devices) = 1
               /\ devs[memory_devices[1]] =
                     [id |-> Main_f.cfg.id,
                      block_size |-> Main_f.cfg.block_size,
                      numa |-> Main_f.args.numa,
                      region_size |-> Main_f.cfg.region_size])
    /\ [](Returned("insert") /\ Constructible(Main_f.cfg)
            /\ Len(Main_f.pre) = 1 /\ IdOf(Main_f.pre[1]) = Main_f.cfg.id
            => /\ Main_f.result = "DeviceWithThisIdExists"
               /\ memory_devices = Main_f.pre)
    /\ [][\A k \in 1..Len(memory_devices) :
             devs'[memory_devices[k]] = devs[memory_devices[k]]]_vars

\* C2 witness: the second insert, of a config that has the id of the one
\* registered device and another node, has returned the error.
C2_Witness ==
    /\ Returned("insert")
    /\ Len(Main_f.pre) = 1
    /\ Main_f.result = "DeviceWithThisIdExists"
    /\ IdOf(memory_devices[1]) = Main_f.cfg.id
    /\ devs[memory_devices[1]].numa # Main_f.args.numa

\* C3: insert of a config the constructor rejects returns
\* Err(CreateFailure) and leaves the sequence as it was; the insert that
\* follows it, of a constructible config with an unused id, returns Ok and
\* appends.
C3_BrokenConfig ==
    /\ Returned("insert") /\ ~Constructible(Main_f.cfg)
          => /\ Main_f.result = "CreateFailure"
             /\ memory_devices = Main_f.pre
    /\ Returned("insert") /\ prevFailed /\ Constructible(Main_f.cfg)
          /\ Main_f.cfg.id \notin IdsIn(Main_f.pre)
          => /\ Main_f.result = "Ok"
             /\ Len(memory_devices) = Len(Main_f.pre) + 1
             /\ SubSeq(memory_devices, 1, Len(Main_f.pre)) = Main_f.pre
             /\ IdOf(memory_devices[Len(memory_devices)]) = Main_f.cfg.id

\* C3 witness: on a registry that already holds a device, an insert was
\* rejected by the constructor and the insert after it has returned Ok.
C3_Witness ==
    /\ Returned("insert")
    /\ prevFailed
    /\ Main_f.result = "Ok"
    /\ Len(Main_f.pre) = 1

\* C4: the sequence is exactly the handles of the calls that returned Ok,
\* in call order: a step changes the sequence only by appending, at the
\* end, the handle of the call that returns Ok in that step, and a call
\* returns Ok only in such a step; a call that has returned an error has
\* left the sequence as it found it; a complete traversal yields the
\* sequence in that order.
C4_InsertionOrder ==
    /\ [][\/ memory_devices' = memory_devices
          \/ /\ pc'[Main] = "returned"
             /\ frame'[Main].result = "Ok"
             /\ memory_devices' = Append(memory_devices, Main_f.memory)]_vars
    /\ [][pc[Main] # "returned" /\ pc'[Main] = "returned"
             /\ frame'[Main].result = "Ok"
             => memory_devices' = Append(Main_f.pre, Main_f.memory)]_vars
    /\ [](pc[Main] = "returned" /\ Main_f.result # "Ok"
             => memory_devices = Main_f.pre)
    /\ [](pc[Main] = "iterating" /\ Main_f.i = Main_f.n
             => Main_f.out = memory_devices)

\* C4 witness: a complete traversal of two devices, the handle registered
\* second having the smaller handle number, after a rejected insert.
C4_Witness ==
    /\ pc[Main] = "iterating"
    /\ Main_f.i = 2
    /\ Main_f.n = 2
    /\ memory_devices[1] > memory_devices[2]
    /\ prevFailed

\* C5: add_device(handle) returns Err(DeviceWithThisIdExists) with the
\* sequence untouched when the handle's id is that of a registered device,
\* and otherwise appends and returns Ok; this holds for every handle, a
\* handle already stored in the registry included, so no call hangs or
\* panics on locking a mutex its own thread holds.
C5_AddDeviceReturns ==
    Main_f.op = "add_device" =>
        /\ pc[Main] # "deadlocked"
        /\ Main_f.fault # "relock"
        /\ pc[Main] = "returned" =>
              IF IdOf(Main_f.memory) \in IdsIn(Main_f.pre)
              THEN /\ Main_f.result = "DeviceWithThisIdExists"
                   /\ memory_devices = Main_f.pre
              ELSE /\ Main_f.result = "Ok"
                   /\ memory_devices = Append(Main_f.pre, Main_f.memory)

\* C6: insert of a config whose requested_size exceeds its region_size,
\* block_size and region_size being compatible and the id unused, fails
\* with Err(CreateFailure) and adds nothing.
C6_RequestedSizeValidated ==
    Returned("insert") /\ Constructible(Main_f.cfg)
        /\ Main_f.cfg.requested_size > Main_f.cfg.region_size
        /\ Main_f.cfg.id \notin IdsIn(Main_f.pre)
        => /\ Main_f.result = "CreateFailure"
           /\ memory_devices = Main_f.pre

\* C7: the NUMA argument build passes to the constructor is None exactly
\* when node_id is 0 and Some(node_id) for every other node_id of the u16
\* range; the constructed device carries it.
C7_NumaArg ==
    Main_f.op = "insert" =>
        LET a == Main_f.args.numa
            n == Main_f.cfg.node_id
        IN /\ a.some <=> n \in 1..U16Max
           /\ a.some => a.val = n
           /\ ~a.some => a.val = 0 /\ n = 0
           /\ Returned("insert") /\ Main_f.result = "Ok"
                 => devs[memory_devices[Len(memory_devices)]].numa = a

\* C7 witness: an insert with the largest node id has returned Ok and the
\* constructor was given Some of that id.
C7_Witness ==
    /\ Returned("insert")
    /\ Main_f.result = "Ok"
    /\ Main_f.cfg.node_id = U16Max
    /\ Main_f.args.numa = [some |-> TRUE, val |-> U16Max]
    /\ Main_f.cfg.requested_size # 0

\* C8: the scan-then-append of add_device is not atomic: as long as no
\* call was entered while another was in progress, the registered ids are
\* pairwise distinct; with two interleaved calls two registered devices
\* can have the same id (the witness).
C8_SerializedNoDuplicate ==
    ~overlapped =>
        \A j \in 1..Len(memory_devices) :
            \A k \in (j + 1)..Len(memory_devices) :
                IdOf(memory_devices[j]) # IdOf(memory_devices[k])

\* C8 witness: two interleaved add_device calls for two handles with the
\* same id have both returned Ok and both handles are registered.
C8_Witness ==
    /\ overlapped
    /\ \A c \in Callers :
          /\ pc[c] = "returned"
          /\ frame[c].op = "add_device"
          /\ frame[c].result = "Ok"
    /\ Len(memory_devices) = 2
    /\ memory_devices[1] # memory_devices[2]
    /\ IdOf(memory_devices[1]) = IdOf(memory_devices[2])

\* The caller is about to take a device lock that is free and poisoned.
AtPoisonedLock ==
    \/ /\ pc[Main] = "scan"
       /\ Main_f.i <= Main_f.n
       /\ holder[memory_devices[Main_f.i]] = Free
       /\ poisoned[memory_devices[Main_f.i]]
    \/ /\ pc[Main] = "lock_memory"
       /\ holder[Main_f.memory] = Free
       /\ poisoned[Main_f.memory]

\* C9: when add_device acquires a poisoned device lock the call panics: it
\* gives no result, appends nothing, and never resumes.
C9_PoisonIsFatal ==
    /\ [][AtPoisonedLock /\ pc'[Main] # pc[Main]
             => /\ pc'[Main] = "panicked"
                /\ frame'[Main].result = "none"
                /\ frame'[Main].fault = "poisoned"
                /\ memory_devices' = memory_devices]_vars
    /\ [][pc[Main] = "panicked"
             => /\ pc'[Main] = "panicked"
                /\ frame'[Main].result = "none"
                /\ memory_devices' = memory_devices]_vars

\* C9 witness: add_device of a handle whose own lock is poisoned has
\* panicked at memory.lock(), with a device registered and the handle not
\* appended.
C9_Witness ==
    /\ pc[Main] = "panicked"
    /\ Main_f.op = "add_device"
    /\ Main_f.fault = "poisoned"
    /\ Len(memory_devices) >= 1
    /\ poisoned[Main_f.memory]
    /\ Main_f.memory \notin Range(memory_devices)

\* C10: a traversal starts at the first element whatever came before,
\* yields the registered handles once each in sequence order, and leaves
\* the sequence as it is; on the empty registry it yields nothing.
C10_Traversal ==
    /\ [](pc[Main] = "iterating"
            => /\ Main_f.i <= Main_f.n
               /\ Main_f.n = Len(memory_devices)
               /\ memory_devices = Main_f.pre
               /\ Main_f.out = SubSeq(memory_devices, 1, Main_f.i))
    /\ [][pc[Main] # "iterating" /\ pc'[Main] = "iterating"
             => frame'[Main].i = 0 /\ frame'[Main].out = <<>>]_vars
    /\ [][pc[Main] = "iterating" => memory_devices' = memory_devices]_vars

\* C10 witness: an iter_mut traversal of two registered devices is
\* exhausted, having yielded both in order.
C10_Witness ==
    /\ pc[Main] = "iterating"
    /\ Main_f.op = "iter_mut"
    /\ Main_f.n = 2
    /\ Main_f.i = 2
    /\ Main_f.out = memory_devices

\* C11: the results form a closed set: a returned insert has yielded Ok,
\* Err(CreateFailure) or Err(DeviceWithThisIdExists), CreateFailure exactly
\* for the configs the constructor rejects; a returned add_device has
\* yielded Ok or Err(DeviceWithThisIdExists); DeviceNotFound and
\* DeviceNotActive are never produced, and a call that has not returned
\* has no result.
C11_ClosedResults ==
    /\ Returned("insert")
          => /\ Main_f.result \in
                   {"Ok", "CreateFailure", "DeviceWithThisIdExists"}
             /\ Main_f.result = "CreateFailure"
                   <=> ~Constructible(Main_f.cfg)
    /\ Returned("add_device")
          => Main_f.result \in {"Ok", "DeviceWithThisIdExists"}
    /\ \A c \in Callers :
          /\ frame[c].result \notin {"DeviceNotFound", "DeviceNotActive"}
          /\ pc[c] # "returned" => frame[c].result = "none"

\* C11 witness: after an insert that returned Err(CreateFailure), an
\* add_device on a registry of two devices has returned
\* Err(DeviceWithThisIdExists).
C11_Witness ==
    /\ Returned("add_device")
    /\ Main_f.result = "DeviceWithThisIdExists"
    /\ prevFailed
    /\ Len(memory_devices) = 2

\* C12: insert constructs before it checks uniqueness: a config the
\* constructor rejects returns Err(CreateFailure) in the step that enters
\* the call, whatever ids are registered and with no device lock touched;
\* only an insert whose construction succeeded is ever inside the scan of
\* add_device, or panics on a lock.
C12_BuildBeforeScan ==
    /\ [](Returned("insert") /\ ~Constructible(Main_f.cfg)
             /\ Main_f.cfg.id \in IdsIn(Main_f.pre)
             => /\ Main_f.result = "CreateFailure"
                /\ memory_devices = Main_f.pre)
    /\ [](Main_f.op = "insert"
             /\ pc[Main] \in {"scan", "lock_memory", "compare", "push",
                              "deadlocked", "panicked"}
             => Constructible(Main_f.cfg))
    /\ [][pc[Main] = "idle" /\ frame'[Main].op = "insert"
             /\ ~Constructible(frame'[Main].cfg)
             => /\ pc'[Main] = "returned"
                /\ holder' = holder
                /\ poisoned' = poisoned]_vars

\* C12 witness: an insert of a rejected config whose id is that of the
\* registered device has returned Err(CreateFailure) although that
\* device's lock is poisoned.
C12_Witness ==
    /\ Returned("insert")
    /\ Main_f.result = "CreateFailure"
    /\ Len(Main_f.pre) = 1
    /\ IdOf(Main_f.pre[1]) = Main_f.cfg.id
    /\ poisoned[Main_f.pre[1]]

\* The handles whose lock that control path holds; the registered handles.
HeldByMain == {h \in Handles : holder[h] = Main}
Registered == {memory_devices[k] : k \in 1..Len(memory_devices)}

\* That control path is between taking the lock of a registered device and
\* dropping it.
Visiting == pc[Main] \in {"lock_memory", "compare", "deadlocked"}

\* C13: lock discipline of add_device.  It holds the lock of at most one
\* registered device at any moment, and that one is the device at the
\* iterator's position; the position starts at the first device and moves
\* by one; no device before a locked one collided with the new handle; and
\* it holds no lock between two visits, when it appends or when it has
\* returned.
C13_LockDiscipline ==
    /\ [](Cardinality(HeldByMain \cap Registered) <= 1)
    /\ [](Visiting
             => /\ HeldByMain \cap Registered = {memory_devices[Main_f.i]}
                /\ \A k \in 1..(Main_f.i - 1) :
                      IdOf(memory_devices[k]) # IdOf(Main_f.memory))
    /\ [](pc[Main] \in {"scan", "push", "returned"} => HeldByMain = {})
    /\ [][/\ pc[Main] = "idle" /\ pc'[Main] = "scan" => frame'[Main].i = 1
          /\ pc[Main] = "compare" /\ pc'[Main] = "scan"
                => frame'[Main].i = Main_f.i + 1
          /\ pc[Main] = "scan" /\ pc'[Main] = "lock_memory"
                => /\ frame'[Main].i = Main_f.i
                   /\ HeldByMain' = {memory_devices[Main_f.i]}
          /\ memory_devices' # memory_devices
                => HeldByMain = {} /\ HeldByMain' = {}]_vars

\* C14: add_device on an empty registry takes no lock: none of its steps
\* changes a lock or a poison flag, and it returns Ok with the handle
\* appended.  memory.lock() of line 92 takes the lock of the handle being
\* added only in the step that follows device.lock() of line 91, once in
\* each visit, while the visited device's lock is held; when the handle is
\* itself the visited device its mutex is the one line 91 has just taken.
C14_EmptyRegistryNoLock ==
    /\ [](Main_f.op = "add_device" /\ Main_f.pre = <<>>
             => /\ pc[Main] \in {"scan", "push", "returned"}
                /\ HeldByMain = {}
                /\ Main_f.fault = "none")
    /\ [](Returned("add_device") /\ Main_f.pre = <<>>
             => /\ Main_f.result = "Ok"
                /\ memory_devices = <<Main_f.memory>>)
    /\ [](pc[Main] = "compare"
             => /\ holder[Main_f.memory] = Main
                /\ holder[memory_devices[Main_f.i]] = Main
                /\ Main_f.memory # memory_devices[Main_f.i])
    /\ []((/\ Main_f.memory \in Handles
           /\ holder[Main_f.memory] = Main
           /\ pc[Main] # "compare")
             => Visiting /\ Main_f.memory = memory_devices[Main_f.i])
    /\ [][/\ (pc'[Main] # pc[Main] /\ frame'[Main].op = "add_device"
                /\ frame'[Main].pre = <<>>)
                => holder' = holder /\ poisoned' = poisoned
          /\ (Main_f.memory \in Handles /\ holder[Main_f.memory] # Main
                /\ holder'[Main_f.memory] = Main)
                => \/ /\ pc[Main] = "lock_memory" /\ pc'[Main] = "compare"
                      /\ holder[memory_devices[Main_f.i]] = Main
                      /\ holder'[memory_devices[Main_f.i]] = Main
                   \/ /\ pc[Main] = "scan" /\ pc'[Main] = "lock_memory"
                      /\ Main_f.memory = memory_devices[Main_f.i]]_vars

\* C14 witness: add_device on an empty registry has returned Ok with the
\* handle appended although that handle's lock is poisoned.
C14_Witness ==
    /\ Returned("add_device")
    /\ Main_f.pre = <<>>
    /\ Main_f.result = "Ok"
    /\ memory_devices = <<Main_f.memory>>
    /\ poisoned[Main_f.memory]

====
